---- MODULE Spec2Model ----
(***************************************************************************)
(* Model of the asynchronous job waiter of the ONTAP API client            *)
(* (storage_drivers/ontap/api): Client.FlexGroupCreate,                    *)
(* Client.WaitForAsyncResponse, Client.checkForJobCompletion, its closure  *)
(* checkJobFinished and asyncResponseBackoff.                              *)
(*                                                                         *)
(* Time is counted in tenths of a second.  The retry loop is the one of    *)
(* github.com/cenkalti/backoff/v4 (RetryNotify over an ExponentialBackOff) *)
(* that checkForJobCompletion calls: run the operation, return on nil or   *)
(* on a Permanent error, otherwise ask NextBackOff for a delay, return the *)
(* last error when it answers Stop, else sleep and run the operation       *)
(* again.  NextBackOff answers Stop only when MaxElapsedTime is not zero   *)
(* and the elapsed time is greater than MaxElapsedTime.                    *)
(*                                                                         *)
(* An error value is a record [fmt, args]: the format string of the        *)
(* fmt.Errorf call that built it and its arguments rendered as text.       *)
(***************************************************************************)
EXTENDS Integers, Sequences, FiniteSets, TLC

\* ------------------------------------------------------------------ bounds
MaxJobId == 1
MaxQueryTime == 1
MaxQueries == 8
ClockMax == 700
ShortWait == 15
MediumWait == 35

\* ------------------------------------------------------- program constants
Second == 10
maxFlexGroupWait == 30 * Second
InitialInterval == 1 * Second
Multiplier == 2
RandomizationPercent == 10
MaxInterval == 60 * Second

\* random.Float64() sampled at the low end, the middle and the high end of [0,1)
RandomSamples == {0, 50, 99}

Min(a, b) == IF a < b THEN a ELSE b

\* ------------------------------------------------------------ error values
Err(f, a) == [fmt |-> f, args |-> a]
NilErr == Err("<nil>", <<>>)
EmptyZapiError == Err("API status: %s, Reason: %s, Code: %s", <<"", "", "">>)
SubmitErr == Err("transport error", <<>>)
ZapiErrorOf(st) == Err("API status: %s, Reason: %s, Code: %s", <<st, "reason", "code">>)

\* does the text of error e contain the decimal rendering of job id j
NamesJob(e, j) == \E i \in 1..Len(e.args) : e.args[i] = ToString(j)

\* does the text of error e contain the word w as an argument
NamesText(e, w) == \E i \in 1..Len(e.args) : e.args[i] = w

\* --------------------------------------------------------------- job states
FailureStates == {"failure", "error", "quit", "dead"}
NonTerminalStates == {"running", "unknown"}
JobStates == {"success"} \cup FailureStates \cup NonTerminalStates

\* what one call of JobGetIterStatus can hand back to checkJobFinished:
\* a call error with or without a response object, a result whose status is
\* not passed, a passed result without attribute list, a passed result whose
\* list holds no job record, or a passed result with one job record
QueryOutcomes ==
    {[kind |-> "callError", hasResponse |-> h, jobState |-> ""] : h \in BOOLEAN}
    \cup {[kind |-> k, hasResponse |-> TRUE, jobState |-> ""] :
             k \in {"notPassed", "noAttributesList", "noJobRecords"}}
    \cup {[kind |-> "job", hasResponse |-> TRUE, jobState |-> s] : s \in JobStates}

NoOutcome == [kind |-> "none", hasResponse |-> FALSE, jobState |-> ""]

JobGetIterStatus(jobId) == QueryOutcomes

\* the closure checkJobFinished applied to one query outcome
OpResult(t, e) == [tag |-> t, err |-> e]

\* checkJobFinished with "dead" left out of the states that halt the backoff
checkJobFinished_DeadRetried(jobId, o) ==
    IF o.kind = "callError"
    THEN IF o.hasResponse
         THEN OpResult("err", Err("error occurred getting job status for job ID %d: %v",
                                  <<ToString(jobId), "result">>))
         ELSE OpResult("panic", NilErr)
    ELSE IF o.kind \in {"notPassed", "noAttributesList"}
    THEN OpResult("err", Err("failed to get job status for job ID %d: %v ",
                             <<ToString(jobId), "result">>))
    ELSE IF o.kind = "noJobRecords"
    THEN OpResult("panic", NilErr)
    ELSE IF o.jobState \in {"failure", "error", "quit"}
    THEN OpResult("permanent", Err("job %d failed to complete. job state: %v",
                                   <<ToString(jobId), o.jobState>>))
    ELSE IF o.jobState # "success"
    THEN OpResult("err", Err("job %d is not yet completed. job state: %v",
                             <<ToString(jobId), o.jobState>>))
    ELSE OpResult("nil", NilErr)

\* checkJobFinished comparing the job state with the submission status word
\* "succeeded" instead of the job state "success"
checkJobFinished_WrongSuccessWord(jobId, o) ==
    IF o.kind = "callError"
    THEN IF o.hasResponse
         THEN OpResult("err", Err("error occurred getting job status for job ID %d: %v",
                                  <<ToString(jobId), "result">>))
         ELSE OpResult("panic", NilErr)
    ELSE IF o.kind \in {"notPassed", "noAttributesList"}
    THEN OpResult("err", Err("failed to get job status for job ID %d: %v ",
                             <<ToString(jobId), "result">>))
    ELSE IF o.kind = "noJobRecords"
    THEN OpResult("panic", NilErr)
    ELSE IF o.jobState \in {"failure", "error", "quit", "dead"}
    THEN OpResult("permanent", Err("job %d failed to complete. job state: %v",
                                   <<ToString(jobId), o.jobState>>))
    ELSE IF o.jobState # "succeeded"
    THEN OpResult("err", Err("job %d is not yet completed. job state: %v",
                             <<ToString(jobId), o.jobState>>))
    ELSE OpResult("nil", NilErr)

checkJobFinished(jobId, o) ==
    IF o.kind = "callError"
    THEN IF o.hasResponse
         THEN OpResult("err", Err("error occurred getting job status for job ID %d: %v",
                                  <<ToString(jobId), "result">>))
         ELSE OpResult("panic", NilErr)
    ELSE IF o.kind = "notPassed"
    THEN OpResult("err", Err("failed to get job status for job ID %d: %v ",
                             <<ToString(jobId), "result">>))
    ELSE IF o.kind = "noAttributesList"
    THEN OpResult("err", Err("failed to get job status for job ID %d: %v ",
                             <<ToString(jobId), "result">>))
    ELSE IF o.kind = "noJobRecords"
    THEN OpResult("panic", NilErr)
    ELSE IF o.jobState \in {"failure", "error", "quit", "dead"}
    THEN OpResult("permanent", Err("job %d failed to complete. job state: %v",
                                   <<ToString(jobId), o.jobState>>))
    ELSE IF o.jobState # "success"
    THEN OpResult("err", Err("job %d is not yet completed. job state: %v",
                             <<ToString(jobId), o.jobState>>))
    ELSE OpResult("nil", NilErr)

\* checkForJobCompletion with the test of RetryNotify's result inverted
checkForJobCompletionResult_Inverted(jobId, retryErr) ==
    IF retryErr = NilErr
    THEN Err("job Id %d failed to complete successfully", <<ToString(jobId)>>)
    ELSE NilErr

\* checkForJobCompletion building its error without the job id
checkForJobCompletionResult_NoJobId(jobId, retryErr) ==
    IF retryErr # NilErr
    THEN Err("job failed to complete successfully", <<>>)
    ELSE NilErr

\* what checkForJobCompletion returns once RetryNotify has returned retryErr
checkForJobCompletionResult(jobId, retryErr) ==
    IF retryErr # NilErr
    THEN Err("job Id %d failed to complete successfully", <<ToString(jobId)>>)
    ELSE NilErr

\* ----------------------------------------------------------------- backoff
\* asyncResponseBackoff setting InitialInterval to 1 (a nanosecond) instead of
\* 1 * time.Second
asyncResponseBackoff_NoUnit(maxWaitTime) ==
    [InitialInterval |-> 0,
     Multiplier |-> Multiplier,
     RandomizationPercent |-> RandomizationPercent,
     MaxInterval |-> MaxInterval,
     MaxElapsedTime |-> maxWaitTime]

\* asyncResponseBackoff copying the initial interval into MaxElapsedTime
\* instead of maxWaitTime
asyncResponseBackoff_WrongBudget(maxWaitTime) ==
    [InitialInterval |-> InitialInterval,
     Multiplier |-> Multiplier,
     RandomizationPercent |-> RandomizationPercent,
     MaxInterval |-> MaxInterval,
     MaxElapsedTime |-> IF maxWaitTime = 0 THEN 0 ELSE InitialInterval]

\* asyncResponseBackoff leaving RandomizationFactor at the library default 0.5
asyncResponseBackoff_DefaultRandomization(maxWaitTime) ==
    [InitialInterval |-> InitialInterval,
     Multiplier |-> Multiplier,
     RandomizationPercent |-> 50,
     MaxInterval |-> MaxInterval,
     MaxElapsedTime |-> maxWaitTime]

asyncResponseBackoff(maxWaitTime) ==
    [InitialInterval |-> InitialInterval,
     Multiplier |-> Multiplier,
     RandomizationPercent |-> RandomizationPercent,
     MaxInterval |-> MaxInterval,
     MaxElapsedTime |-> maxWaitTime]

getRandomValueFromInterval(b, random, current) ==
    LET delta == (b.RandomizationPercent * current) \div 100
        minInterval == current - delta
        maxInterval == current + delta
    IN  minInterval + (random * (maxInterval - minInterval + 1)) \div 100

incrementCurrentInterval(b, current) ==
    IF current * b.Multiplier >= b.MaxInterval
    THEN b.MaxInterval
    ELSE current * b.Multiplier

BackOffStops(b, elapsedTime) ==
    b.MaxElapsedTime # 0 /\ elapsedTime > b.MaxElapsedTime


\* ------------------------------------------------------- submission results
\* the value handed to WaitForAsyncResponse: a nil interface, a response type
\* without the async result fields, or an async response whose Result holds
\* ResultStatusAttr, ResultStatusPtr ("" when the pointer is nil),
\* ResultJobidPtr (0 when nil) and ResultErrorCodePtr (0 when nil)
AsyncStatuses == {"", "succeeded", "in_progress", "failed", "queued"}
ErrorCodes == {0, 13001}

AsyncResults(resultStatuses) ==
    [shape : {"async"}, resultStatus : resultStatuses, status : AsyncStatuses,
     jobId : 0..MaxJobId, errorCode : ErrorCodes]

MalformedResults ==
    [shape : {"nil", "noAsyncFields"}, resultStatus : {"passed"}, status : {""},
     jobId : {0}, errorCode : {0}]

ZapiResults == AsyncResults({"passed"}) \cup MalformedResults

\* the values GetError is probed with: next to the three shapes above, a
\* Result struct passed by value ("result"), a typed nil pointer ("nilPtr"),
\* a pointer to a value that is not a struct ("ptrNonStruct"), a value that is
\* neither pointer nor struct ("nonStruct") and a pointer to a struct with
\* neither a Result nor a ResultStatusAttr field ("noStatus")
GetErrorResults ==
    [shape : {"async", "noAsyncFields", "result"},
     resultStatus : {"passed", "failed"}, status : {""}, jobId : {0},
     errorCode : {0}]
    \cup [shape : {"nil", "nilPtr", "ptrNonStruct", "nonStruct", "noStatus"},
          resultStatus : {""}, status : {""}, jobId : {0}, errorCode : {0}]

\* FieldByName on a zero Value or on a value that is not a struct panics and
\* the deferred recover yields ZapiError{}; a missing ResultStatusAttr field
\* reads as the string "<invalid Value>"
NewZapiError(z) ==
    IF z.shape = "nil"
    THEN Err("API status: %s, Reason: %s, Code: %s",
             <<"failed", "unexpected nil ZAPI result", "EINTERNALERROR">>)
    ELSE IF z.shape \in {"nilPtr", "ptrNonStruct", "nonStruct"}
    THEN EmptyZapiError
    ELSE IF z.shape = "noStatus"
    THEN ZapiErrorOf("<invalid Value>")
    ELSE ZapiErrorOf(z.resultStatus)

IsPassed(zerr) == zerr.args[1] = "passed"

\* the unwrapping block of GetError: a valid pointee that is not a struct
\* makes FieldByName("Result") panic before errorIn is looked at, and the
\* deferred recover sets errorOut to ZapiError{}
GetError(z, errorIn) ==
    IF z.shape = "ptrNonStruct"
    THEN EmptyZapiError
    ELSE IF errorIn # NilErr
    THEN errorIn
    ELSE IF ~IsPassed(NewZapiError(z))
    THEN NewZapiError(z)
    ELSE NilErr

\* reflection on a nil interface or on a type without the Result*Ptr fields
\* panics; the deferred recover turns the panic into the error ZapiError{}
NewZapiAsyncResult(z) ==
    IF z.shape \in {"nil", "noAsyncFields"}
    THEN [jobId |-> 0, status |-> "", errorCode |-> 0, err |-> EmptyZapiError]
    ELSE [jobId |-> z.jobId, status |-> z.status, errorCode |-> z.errorCode,
          err |-> NilErr]

\* what the array client's ExecuteUsing hands back for the create request
SubmitOutcomes ==
    [kind : {"callError"}, hasResponse : BOOLEAN,
     result : AsyncResults({"failed"})]
    \cup [kind : {"response"}, hasResponse : {TRUE},
          result : AsyncResults({"passed", "failed"})]

\* what the array client's ExecuteUsing hands back for the destroy request;
\* errno is the Result's ResultErrnoAttr
DestroyOutcomes ==
    [kind : {"callError"}, hasResponse : BOOLEAN,
     result : AsyncResults({"failed"}), errno : {""}]
    \cup [kind : {"response"}, hasResponse : {TRUE},
          result : AsyncResults({"passed"}), errno : {""}]
    \cup [kind : {"response"}, hasResponse : {TRUE},
          result : AsyncResults({"failed"}),
          errno : {"EVOLUMEDOESNOTEXIST", "EINTERNALERROR"}]

DestroyCallErr(x) == IF x.kind = "callError" THEN SubmitErr ELSE NilErr

\* FlexGroupDestroy asking GetError before it looks at the error code
FlexGroupDestroyBranch_ErrorFirst(x) ==
    IF ~x.hasResponse
    THEN "panic"
    ELSE IF GetError(x.result, DestroyCallErr(x)) # NilErr
    THEN "submission"
    ELSE IF ~IsPassed(NewZapiError(x.result)) /\ x.errno = "EVOLUMEDOESNOTEXIST"
    THEN "alreadyDeleted"
    ELSE "wait"

\* the way FlexGroupDestroy takes on the outcome of its request: *response
\* on a nil response aborts; a failed status with code EVOLUMEDOESNOTEXIST is
\* not an error; any other error GetError finds is returned; else it waits
FlexGroupDestroyBranch(x) ==
    IF ~x.hasResponse
    THEN "panic"
    ELSE IF ~IsPassed(NewZapiError(x.result)) /\ x.errno = "EVOLUMEDOESNOTEXIST"
    THEN "alreadyDeleted"
    ELSE IF GetError(x.result, DestroyCallErr(x)) # NilErr
    THEN "submission"
    ELSE "wait"

WaitTimes == {0, ShortWait, MediumWait}

\* ------------------------------------------------------------------- client
\* the fields of ClientConfig and ZapiRunner the modelled operations read
ClientConfig == [SVM |-> "svm1"]

NewClient(config) ==
    [config |-> config, zr |-> [SVM |-> config.SVM, OntapiVersion |-> ""]]

\* a client whose runner already caches the ONTAPI version
CachedClient == [NewClient(ClientConfig) EXCEPT !.zr.OntapiVersion = "1.150"]

NoRunner == [SVM |-> "none", OntapiVersion |-> "none"]

\* GetNontunneledZapiRunner clearing SVM through the client's own runner
\* pointer instead of through a copy
GetNontunneledZapiRunner_NoCopy(d) ==
    [d |-> [d EXCEPT !.zr.SVM = ""], clone |-> [d.zr EXCEPT !.SVM = ""]]

\* the client after the call and the runner the call returns
GetNontunneledZapiRunner(d) ==
    [d |-> d, clone |-> [d.zr EXCEPT !.SVM = ""]]

\* RetryNotify starting the operation again while a query is in flight
MayIssueQuery_Concurrent(p) == p \in {"poll", "query"}

\* RetryNotify calls the operation, and the operation calls JobGetIterStatus,
\* synchronously: a query is issued only from the head of the retry loop
MayIssueQuery(p) == p = "poll"

\* ---------------------------------------------------------- initiator groups
MaxNodes == 3

\* a node is known by its number: its record carries the name and the IQN
Node(n) == [Name |-> "node" \o ToString(n), IQN |-> "IQN" \o ToString(n)]
Nodes == {Node(n) : n \in 1..MaxNodes}
IQNs == {node.IQN : node \in Nodes}

Drivers == {"driver1", "driver2"}
IgroupNames == {"igroup1", "igroup2"}

\* Config.IgroupName of each driver of the test
IgroupName(d) == IF d = "driver1" THEN "igroup1" ELSE "igroup2"

\* IgroupAdd sending every request for one fixed group
IgroupAdd_FixedGroup(initiatorGroupName, initiator) ==
    [api |-> "igroup-add", initiatorGroupName |-> "igroup1",
     initiator |-> initiator, force |-> FALSE]

IgroupAdd(initiatorGroupName, initiator) ==
    [api |-> "igroup-add", initiatorGroupName |-> initiatorGroupName,
     initiator |-> initiator, force |-> FALSE]

\* IgroupRemove leaving out SetInitiator
IgroupRemove_NoInitiator(initiatorGroupName, initiator, force) ==
    [api |-> "igroup-remove", initiatorGroupName |-> initiatorGroupName,
     initiator |-> "", force |-> force]

IgroupRemove(initiatorGroupName, initiator, force) ==
    [api |-> "igroup-remove", initiatorGroupName |-> initiatorGroupName,
     initiator |-> initiator, force |-> force]

\* IgroupDestroy leaving out SetInitiatorGroupName
IgroupDestroy_NoName(initiatorGroupName) ==
    [api |-> "igroup-destroy", initiatorGroupName |-> "",
     initiator |-> "", force |-> FALSE]

IgroupDestroy(initiatorGroupName) ==
    [api |-> "igroup-destroy", initiatorGroupName |-> initiatorGroupName,
     initiator |-> "", force |-> FALSE]

NoIgroup == [exists |-> FALSE, iqns |-> {}]

\* the array's initiator groups after it has served request req: the fake
\* array of the tests accepts every request that names an existing group
ArrayServe(ig, req) ==
    IF req.initiatorGroupName \notin DOMAIN ig
       \/ ~ig[req.initiatorGroupName].exists
    THEN ig
    ELSE IF req.api = "igroup-add"
    THEN [ig EXCEPT ![req.initiatorGroupName].iqns = @ \cup {req.initiator}]
    ELSE IF req.api = "igroup-remove"
    THEN [ig EXCEPT ![req.initiatorGroupName].iqns = @ \ {req.initiator}]
    ELSE [ig EXCEPT ![req.initiatorGroupName] = NoIgroup]

\* --------------------------------------------------------------------- probe
\* what the orchestrator's GetVersion hands to Probe
GetVersionOutcomes ==
    {[kind |-> "nil", msg |-> ""],
     [kind |-> "bootstrap", msg |-> "Trident initialization failed"],
     [kind |-> "notReady", msg |-> "Trident is initializing, please try again later"],
     [kind |-> "other", msg |-> "unexpected error"]}

IsBootstrapError(err) == err.kind = "bootstrap"

\* Probe failing on every error of GetVersion
Probe_FailsOnAnyError(err) ==
    IF err.kind # "nil"
    THEN [response |-> "ProbeResponse{}", code |-> "FailedPrecondition", msg |-> err.msg]
    ELSE [response |-> "ProbeResponse{}", code |-> "OK", msg |-> ""]

Probe(err) ==
    IF IsBootstrapError(err)
    THEN [response |-> "ProbeResponse{}", code |-> "FailedPrecondition", msg |-> err.msg]
    ELSE [response |-> "ProbeResponse{}", code |-> "OK", msg |-> ""]

\* ------------------------------------------------------------ ONTAPI version
\* what the array client's ExecuteUsing hands back for the version request:
\* a call error with or without a response object, a response whose status
\* is not passed, or a passed response with major and minor version
VersionOutcomes ==
    {[kind |-> "callError", shape |-> sh, resultStatus |-> "failed",
      major |-> 0, minor |-> 0] : sh \in {"nilPtr", "noAsyncFields"}}
    \cup {[kind |-> "response", shape |-> "noAsyncFields", resultStatus |-> "failed",
           major |-> 0, minor |-> 0]}
    \cup {[kind |-> "response", shape |-> "noAsyncFields", resultStatus |-> "passed",
           major |-> 1, minor |-> m] : m \in {150, 170}}

\* the response of a version request as GetError sees it
VersionResult(o) ==
    [shape |-> o.shape, resultStatus |-> o.resultStatus, status |-> "",
     jobId |-> 0, errorCode |-> 0]

NoVersionCall == [before |-> "", requests |-> 0, version |-> "", err |-> NilErr,
                  known |-> ""]

\* SystemGetOntapiVersion with the runner held by value in Client: the
\* assignment to d.zr.OntapiVersion changes the receiver's copy only
SystemGetOntapiVersion_CacheLost(d, o) ==
    IF d.zr.OntapiVersion # ""
    THEN [d |-> d, version |-> d.zr.OntapiVersion, err |-> NilErr, requests |-> 0]
    ELSE LET gerr == GetError(VersionResult(o),
                              IF o.kind = "callError" THEN SubmitErr ELSE NilErr)
             v == ToString(o.major) \o "." \o ToString(o.minor)
         IN  IF gerr # NilErr
             THEN [d |-> d, version |-> "",
                   err |-> Err("could not read ONTAPI version: %v", <<gerr.fmt>>),
                   requests |-> 1]
             ELSE [d |-> d, version |-> v, err |-> NilErr, requests |-> 1]

\* the client after the call, the returned version and error, and the number
\* of remote requests the call issued
SystemGetOntapiVersion(d, o) ==
    IF d.zr.OntapiVersion # ""
    THEN [d |-> d, version |-> d.zr.OntapiVersion, err |-> NilErr, requests |-> 0]
    ELSE LET gerr == GetError(VersionResult(o),
                              IF o.kind = "callError" THEN SubmitErr ELSE NilErr)
             v == ToString(o.major) \o "." \o ToString(o.minor)
         IN  IF gerr # NilErr
             THEN [d |-> d, version |-> "",
                   err |-> Err("could not read ONTAPI version: %v", <<gerr.fmt>>),
                   requests |-> 1]
             ELSE [d |-> [d EXCEPT !.zr.OntapiVersion = v], version |-> v,
                   err |-> NilErr, requests |-> 1]

\* ----------------------------------------------------------------- LUN maps
MaxLunId == 1

\* one map of the LUN: the initiator group and the LUN id in it
LunMapsOf(g) == {<<[igroup |-> g, lunId |-> i]>> : i \in 0..MaxLunId}

\* the lists of maps the array can report for the LUN, no group twice
LunMapLists ==
    {<<>>}
    \cup UNION {LunMapsOf(g) : g \in IgroupNames}
    \cup UNION {{a \o b : a \in LunMapsOf(p[1]), b \in LunMapsOf(p[2])} :
                   p \in {q \in IgroupNames \X IgroupNames : q[1] # q[2]}}

\* how the array client answers the list, unmap and map requests of one
\* call, and the LUN id the array assigns if it maps
LunCallOutcomes ==
    [list : {"callError", "notPassed", "ok"},
     unmap : {"callError", "callErrorNoResponse", "ok"},
     map : {"callError", "notPassed", "ok"},
     assigned : 0..MaxLunId]

NoLunCall ==
    [before |-> <<>>, initiatorGroupName |-> "", importNotManaged |-> FALSE,
     o |-> [list |-> "", unmap |-> "", map |-> "", assigned |-> 0],
     requests |-> <<>>, lunID |-> 0, err |-> NilErr, panic |-> FALSE]

LunRequest(api, g) == [api |-> api, igroup |-> g]

\* the maps of the LUN without the one to group g
WithoutMap(maps, g) == SelectSeq(maps, LAMBDA m : m.igroup # g)

\* what a call of LunMapIfNotMapped gives: the LUN id and error returned,
\* the requests issued, the maps the array holds afterwards, and whether the
\* call aborted
LunResult(lunID, err, requests, maps, panic) ==
    [lunID |-> lunID, err |-> err, requests |-> requests, maps |-> maps,
     panic |-> panic]

\* the loop taking a map of another group for the requested one only when
\* the group names are equal
IsRequestedIgroup_IgnoresImport(igroupName, initiatorGroupName, importNotManaged) ==
    igroupName = initiatorGroupName

\* the test that ends the loop with alreadyMapped set
IsRequestedIgroup(igroupName, initiatorGroupName, importNotManaged) ==
    igroupName = initiatorGroupName \/ importNotManaged

\* the test that deletes the map of another group
IsForeignIgroup(igroupName, initiatorGroupName, importNotManaged) ==
    igroupName # initiatorGroupName /\ ~importNotManaged

\* the part after the loop: map if and only if not already mapped
LunMapAutoIDStep(maps, requests, initiatorGroupName, o) ==
    LET reqs == Append(requests, LunRequest("lun-map", initiatorGroupName))
    IN  IF o.map = "callError"
        THEN LunResult(-1, Err("problem mapping LUN %s: %v", <<"lunPath", "err">>),
                       reqs, maps, FALSE)
        ELSE IF o.map = "notPassed"
        THEN LunResult(-1, Err("problem mapping LUN %s: %+v", <<"lunPath", "result">>),
                       reqs, maps, FALSE)
        ELSE LunResult(o.assigned, NilErr, reqs,
                       Append(maps, [igroup |-> initiatorGroupName,
                                     lunId |-> o.assigned]),
                       FALSE)

\* the loop over the listed maps from position i on
RECURSIVE LunMapLoop(_, _, _, _, _, _, _)
LunMapLoop(listed, i, maps, requests, initiatorGroupName, importNotManaged, o) ==
    IF i > Len(listed)
    THEN LunMapAutoIDStep(maps, requests, initiatorGroupName, o)
    ELSE LET igroup == listed[i]
         IN  IF IsForeignIgroup(igroup.igroup, initiatorGroupName, importNotManaged)
             THEN LET reqs == Append(requests, LunRequest("lun-unmap", igroup.igroup))
                  IN  IF o.unmap = "callErrorNoResponse"
                      THEN LunResult(-1, NilErr, reqs, maps, TRUE)
                      ELSE IF o.unmap = "callError"
                      THEN LunResult(-1, Err("problem deleting map for LUN %s: %+v",
                                             <<"lunPath", "result">>),
                                     reqs, maps, FALSE)
                      ELSE IF IsRequestedIgroup(igroup.igroup, initiatorGroupName,
                                                importNotManaged)
                      THEN LunResult(igroup.lunId, NilErr, reqs,
                                     WithoutMap(maps, igroup.igroup), FALSE)
                      ELSE LunMapLoop(listed, i + 1, WithoutMap(maps, igroup.igroup),
                                      reqs, initiatorGroupName, importNotManaged, o)
             ELSE IF IsRequestedIgroup(igroup.igroup, initiatorGroupName,
                                       importNotManaged)
             THEN LunResult(igroup.lunId, NilErr, requests, maps, FALSE)
             ELSE LunMapLoop(listed, i + 1, maps, requests, initiatorGroupName,
                             importNotManaged, o)

LunMapIfNotMapped(maps, initiatorGroupName, importNotManaged, o) ==
    LET listReq == <<LunRequest("lun-map-list-info", "")>>
    IN  IF o.list = "callError"
        THEN LunResult(-1, Err("problem reading maps for LUN %s: %v",
                               <<"lunPath", "err">>), listReq, maps, FALSE)
        ELSE IF o.list = "notPassed"
        THEN LunResult(-1, Err("problem reading maps for LUN %s: %+v",
                               <<"lunPath", "result">>), listReq, maps, FALSE)
        ELSE LunMapLoop(maps, 1, maps, listReq, initiatorGroupName,
                        importNotManaged, o)

\* -------------------------------------------------------------------- state
VARIABLES pc, caller, status, jobId, maxElapsed, currentInterval, elapsed,
          retryErr, lastOutcome, lastDelay, nQueries, nSleeps, nNonTerminal,
          nQueryFailed, waitCalled, cause, waitErr, callerErr,
          client, outstanding, queryRunner, errno,
          igroups, terminated, san, lastReconciled, lastProbe, lastGetError,
          ontapi, lun

waitVars == <<pc, caller, status, jobId, maxElapsed, currentInterval, elapsed,
          retryErr, lastOutcome, lastDelay, nQueries, nSleeps, nNonTerminal,
          nQueryFailed, waitCalled, cause, waitErr, callerErr,
          client, outstanding, queryRunner, errno>>

opsVars == <<igroups, terminated, san, lastReconciled, lastProbe, lastGetError,
             ontapi, lun>>

\* everything of a wait but the client itself
waitVarsButClient ==
    <<pc, caller, status, jobId, maxElapsed, currentInterval, elapsed,
      retryErr, lastOutcome, lastDelay, nQueries, nSleeps, nNonTerminal,
      nQueryFailed, waitCalled, cause, waitErr, callerErr, outstanding,
      queryRunner, errno>>

vars == <<waitVars, opsVars>>

clientVars == <<client, outstanding, queryRunner>>

pollVars == <<currentInterval, elapsed, retryErr, lastOutcome, lastDelay,
              nQueries, nSleeps, nNonTerminal, nQueryFailed>>

IdleSan == [pc |-> "idle", driver |-> "none", nodeIQNs |-> {}, toAdd |-> {},
            toRemove |-> {}]
NoProbe == [err |-> [kind |-> "none", msg |-> ""],
            out |-> [response |-> "", code |-> "", msg |-> ""]]
NoGetError == [z |-> [shape |-> "none", resultStatus |-> "", status |-> "",
                      jobId |-> 0, errorCode |-> 0],
               errorIn |-> NilErr, errorOut |-> NilErr]

\* no call on the array or on the plugin has been made
OpsIdle ==
    /\ terminated = {}
    /\ san = IdleSan
    /\ lastReconciled = "none"
    /\ lastProbe = NoProbe
    /\ lastGetError = NoGetError
    /\ ontapi = NoVersionCall

WaitInit ==
    /\ pc = "idle"
    /\ caller = "none"
    /\ status = ""
    /\ jobId = 0
    /\ maxElapsed = 0
    /\ currentInterval = InitialInterval
    /\ elapsed = 0
    /\ retryErr = NilErr
    /\ lastOutcome = NoOutcome
    /\ lastDelay = 0
    /\ nQueries = 0
    /\ nSleeps = 0
    /\ nNonTerminal = 0
    /\ nQueryFailed = 0
    /\ waitCalled = FALSE
    /\ cause = "none"
    /\ waitErr = NilErr
    /\ callerErr = NilErr
    /\ errno = ""
    /\ outstanding = 0
    /\ queryRunner = NoRunner

Init ==
    /\ WaitInit
    /\ client = CachedClient
    /\ lun = [maps |-> <<>>, call |-> NoLunCall]
    /\ igroups = [g \in IgroupNames |-> NoIgroup]
    /\ OpsIdle

\* the array holds one group per driver, with any membership
OpsInit ==
    /\ WaitInit
    /\ client = NewClient(ClientConfig)
    /\ lun = [maps |-> <<>>, call |-> NoLunCall]
    /\ igroups \in [IgroupNames -> {[exists |-> TRUE, iqns |-> m] : m \in SUBSET IQNs}]
    /\ OpsIdle

\* the error the caller of WaitForAsyncResponse passes on
WrapWaitError(c, e) ==
    IF c \in {"FlexGroupCreate", "FlexGroupDestroy"} /\ e # NilErr
    THEN Err("error waiting for response: " \o e.fmt, e.args)
    ELSE e

\* WaitForAsyncResponse returns e to caller c
ReturnFromWait(c, e, why) ==
    /\ pc' = "done"
    /\ waitErr' = e
    /\ callerErr' = WrapWaitError(c, e)
    /\ cause' = why

\* WaitForAsyncResponse polling for every status other than "failed"
WaitBranch_PollUnlessFailed(asyncResult) ==
    IF asyncResult.err # NilErr THEN "parseError"
    ELSE IF asyncResult.status = "failed" THEN "failed"
    ELSE "poll"

\* the branch WaitForAsyncResponse takes on the parsed submission result
WaitBranch(asyncResult) ==
    IF asyncResult.err # NilErr THEN "parseError"
    ELSE IF asyncResult.status = "in_progress" THEN "poll"
    ELSE IF asyncResult.status = "failed" THEN "failed"
    ELSE "nil"

\* the body of WaitForAsyncResponse up to the start of the retry loop
EnterWait(c, z, maxWaitTime) ==
    LET asyncResult == NewZapiAsyncResult(z)
        branch == WaitBranch(asyncResult)
    IN  /\ caller' = c
        /\ waitCalled' = TRUE
        /\ status' = asyncResult.status
        /\ maxElapsed' = maxWaitTime
        /\ UNCHANGED clientVars
        /\ UNCHANGED opsVars
        /\ UNCHANGED <<retryErr, lastOutcome, lastDelay, nQueries, nSleeps,
                       nNonTerminal, nQueryFailed>>
        /\ IF branch = "parseError"
           THEN /\ ReturnFromWait(c, asyncResult.err, "parse")
                /\ jobId' = 0
                /\ UNCHANGED <<currentInterval, elapsed>>
           ELSE IF branch = "poll"
           THEN \* checkForJobCompletion: RetryNotify resets the new backoff
                /\ pc' = "poll"
                /\ jobId' = asyncResult.jobId
                /\ currentInterval' = asyncResponseBackoff(maxWaitTime).InitialInterval
                /\ elapsed' = 0
                /\ UNCHANGED <<waitErr, callerErr, cause>>
           ELSE IF branch = "failed"
           THEN /\ ReturnFromWait(c, Err("result status is failed with errorCode %d",
                                         <<ToString(asyncResult.errorCode)>>), "failed")
                /\ jobId' = 0
                /\ UNCHANGED <<currentInterval, elapsed>>
           ELSE /\ ReturnFromWait(c, NilErr, "succeeded")
                /\ jobId' = 0
                /\ UNCHANGED <<currentInterval, elapsed>>

WaitForAsyncResponse ==
    /\ pc = "idle"
    /\ UNCHANGED errno
    /\ \E z \in ZapiResults, w \in WaitTimes : EnterWait("direct", z, w)

FlexGroupCreate ==
    /\ pc = "idle"
    /\ UNCHANGED errno
    /\ \E x \in SubmitOutcomes :
         IF ~x.hasResponse
         THEN /\ pc' = "panic"
              /\ caller' = "FlexGroupCreate"
              /\ cause' = "panic"
              /\ UNCHANGED <<status, jobId, maxElapsed, waitCalled, waitErr,
                             callerErr>>
              /\ UNCHANGED pollVars
              /\ UNCHANGED clientVars
              /\ UNCHANGED opsVars
         ELSE LET zerr == GetError(x.result,
                                   IF x.kind = "callError" THEN SubmitErr ELSE NilErr)
              IN  IF zerr # NilErr
                  THEN /\ pc' = "done"
                       /\ caller' = "FlexGroupCreate"
                       /\ cause' = "submission"
                       /\ callerErr' = zerr
                       /\ UNCHANGED <<status, jobId, maxElapsed, waitCalled, waitErr>>
                       /\ UNCHANGED pollVars
                       /\ UNCHANGED clientVars
                       /\ UNCHANGED opsVars
                  ELSE EnterWait("FlexGroupCreate", x.result, maxFlexGroupWait)

FlexGroupDestroy ==
    /\ pc = "idle"
    /\ \E x \in DestroyOutcomes :
         LET branch == FlexGroupDestroyBranch(x)
         IN  /\ errno' = x.errno
             /\ IF branch = "panic"
                THEN /\ pc' = "panic"
                     /\ caller' = "FlexGroupDestroy"
                     /\ cause' = "panic"
                     /\ UNCHANGED <<status, jobId, maxElapsed, waitCalled, waitErr,
                                    callerErr>>
                     /\ UNCHANGED pollVars
                     /\ UNCHANGED clientVars
                     /\ UNCHANGED opsVars
                ELSE IF branch = "alreadyDeleted"
                THEN /\ pc' = "done"
                     /\ caller' = "FlexGroupDestroy"
                     /\ cause' = "alreadyDeleted"
                     /\ callerErr' = NilErr
                     /\ UNCHANGED <<status, jobId, maxElapsed, waitCalled, waitErr>>
                     /\ UNCHANGED pollVars
                     /\ UNCHANGED clientVars
                     /\ UNCHANGED opsVars
                ELSE IF branch = "submission"
                THEN /\ pc' = "done"
                     /\ caller' = "FlexGroupDestroy"
                     /\ cause' = "submission"
                     /\ callerErr' = GetError(x.result, DestroyCallErr(x))
                     /\ UNCHANGED <<status, jobId, maxElapsed, waitCalled, waitErr>>
                     /\ UNCHANGED pollVars
                     /\ UNCHANGED clientVars
                     /\ UNCHANGED opsVars
                ELSE EnterWait("FlexGroupDestroy", x.result, maxFlexGroupWait)

\* what RetryNotify does with the value the operation returned
RetryDecision(r) ==
    IF r.tag = "nil" THEN "returnNil"
    ELSE IF r.tag = "permanent" THEN "returnErr"
    ELSE IF r.tag = "panic" THEN "panic"
    ELSE "backoff"

\* the operation starts: JobGetIterStatus sends the status query on a
\* non-tunneled copy of the client's runner
IssueQuery ==
    /\ MayIssueQuery(pc)
    /\ LET r == GetNontunneledZapiRunner(client)
       IN  /\ client' = r.d
           /\ queryRunner' = r.clone
    /\ outstanding' = outstanding + 1
    /\ pc' = "query"
    /\ UNCHANGED errno
    /\ UNCHANGED opsVars
    /\ UNCHANGED <<caller, status, jobId, maxElapsed, waitCalled, cause,
                   waitErr, callerErr>>
    /\ UNCHANGED pollVars

\* the query returns and the operation classifies its outcome
CheckJobFinished ==
    /\ pc = "query"
    /\ outstanding' = outstanding - 1
    /\ UNCHANGED <<client, queryRunner, errno>>
    /\ UNCHANGED opsVars
    /\ \E o \in JobGetIterStatus(jobId), d \in 0..MaxQueryTime :
         LET r == checkJobFinished(jobId, o)
             todo == RetryDecision(r)
         IN  /\ nQueries' = Min(nQueries + 1, MaxQueries)
             /\ elapsed' = Min(elapsed + d, ClockMax)
             /\ lastOutcome' = o
             /\ nNonTerminal' = IF o.kind = "job" /\ o.jobState \in NonTerminalStates
                                THEN Min(nNonTerminal + 1, MaxQueries)
                                ELSE nNonTerminal
             /\ nQueryFailed' = IF o.kind # "job"
                                THEN Min(nQueryFailed + 1, MaxQueries)
                                ELSE nQueryFailed
             /\ retryErr' = r.err
             /\ UNCHANGED <<caller, status, jobId, maxElapsed, currentInterval,
                            lastDelay, nSleeps, waitCalled>>
             /\ IF todo = "returnNil"
                THEN ReturnFromWait(caller, checkForJobCompletionResult(jobId, NilErr),
                                    "jobSuccess")
                ELSE IF todo = "returnErr"
                THEN ReturnFromWait(caller, checkForJobCompletionResult(jobId, r.err),
                                    "jobFailed")
                ELSE IF todo = "panic"
                THEN /\ pc' = "panic"
                     /\ cause' = "panic"
                     /\ UNCHANGED <<waitErr, callerErr>>
                ELSE /\ pc' = "backoff"
                     /\ UNCHANGED <<waitErr, callerErr, cause>>

\* NextBackOff answers Stop: RetryNotify returns the operation's last error
BackOffStop ==
    /\ pc = "backoff"
    /\ BackOffStops(asyncResponseBackoff(maxElapsed), elapsed)
    /\ ReturnFromWait(caller, checkForJobCompletionResult(jobId, retryErr), "timeout")
    /\ UNCHANGED <<caller, status, jobId, maxElapsed, waitCalled>>
    /\ UNCHANGED pollVars
    /\ UNCHANGED clientVars
    /\ UNCHANGED errno
    /\ UNCHANGED opsVars

\* NextBackOff answers a delay: RetryNotify sleeps for it
BackOffSleep ==
    /\ pc = "backoff"
    /\ ~BackOffStops(asyncResponseBackoff(maxElapsed), elapsed)
    /\ \E random \in RandomSamples :
         LET b == asyncResponseBackoff(maxElapsed)
             next == getRandomValueFromInterval(b, random, currentInterval)
         IN  /\ lastDelay' = next
             /\ currentInterval' = incrementCurrentInterval(b, currentInterval)
             /\ elapsed' = Min(elapsed + next, ClockMax)
             /\ nSleeps' = Min(nSleeps + 1, MaxQueries)
    /\ pc' = "poll"
    /\ UNCHANGED <<caller, status, jobId, maxElapsed, retryErr, lastOutcome,
                   nQueries, nNonTerminal, nQueryFailed, waitCalled, cause,
                   waitErr, callerErr>>
    /\ UNCHANGED clientVars
    /\ UNCHANGED errno
    /\ UNCHANGED opsVars

\* the call is over; the client is ready for the next one
Return ==
    /\ pc \in {"done", "panic"}
    /\ pc' = "idle"
    /\ caller' = "none"
    /\ status' = ""
    /\ jobId' = 0
    /\ maxElapsed' = 0
    /\ currentInterval' = InitialInterval
    /\ elapsed' = 0
    /\ retryErr' = NilErr
    /\ lastOutcome' = NoOutcome
    /\ lastDelay' = 0
    /\ nQueries' = 0
    /\ nSleeps' = 0
    /\ nNonTerminal' = 0
    /\ nQueryFailed' = 0
    /\ waitCalled' = FALSE
    /\ cause' = "none"
    /\ waitErr' = NilErr
    /\ callerErr' = NilErr
    /\ queryRunner' = NoRunner
    /\ errno' = ""
    /\ UNCHANGED <<client, outstanding>>
    /\ UNCHANGED opsVars

Next ==
    \/ WaitForAsyncResponse
    \/ FlexGroupCreate
    \/ FlexGroupDestroy
    \/ IssueQuery
    \/ CheckJobFinished
    \/ BackOffStop
    \/ BackOffSleep
    \/ Return

Spec == Init /\ [][Next]_vars

\* a status query returns and the timer of the retry loop fires
FairSpec ==
    /\ Spec
    /\ WF_vars(IssueQuery)
    /\ WF_vars(CheckJobFinished)
    /\ WF_vars(BackOffStop)
    /\ WF_vars(BackOffSleep)

\* ------------------------------------------- array and plugin operations
\* ReconcileNodeAccess reads the group of driver d and works out which
\* initiators to add and which to remove
ReconcileNodeAccess ==
    /\ san.pc = "idle"
    /\ \E d \in Drivers \ terminated, nodes \in SUBSET Nodes :
         LET nodeIQNs == {node.IQN : node \in nodes}
             mappedIQNs == igroups[IgroupName(d)].iqns
         IN  san' = [pc |-> "reconcile", driver |-> d, nodeIQNs |-> nodeIQNs,
                     toAdd |-> nodeIQNs \ mappedIQNs,
                     toRemove |-> mappedIQNs \ nodeIQNs]
    /\ UNCHANGED <<igroups, terminated, lastReconciled, lastProbe, lastGetError>>
    /\ UNCHANGED <<ontapi, lun>>
    /\ UNCHANGED waitVars

\* one IgroupAdd request for an initiator the group lacks
ReconcileAdd ==
    /\ san.pc = "reconcile"
    /\ \E iqn \in san.toAdd :
         /\ igroups' = ArrayServe(igroups, IgroupAdd(IgroupName(san.driver), iqn))
         /\ san' = [san EXCEPT !.toAdd = @ \ {iqn}]
    /\ UNCHANGED <<terminated, lastReconciled, lastProbe, lastGetError>>
    /\ UNCHANGED <<ontapi, lun>>
    /\ UNCHANGED waitVars

\* one forced IgroupRemove request for an initiator no node has
ReconcileRemove ==
    /\ san.pc = "reconcile"
    /\ san.toAdd = {}
    /\ \E iqn \in san.toRemove :
         /\ igroups' = ArrayServe(igroups,
                                  IgroupRemove(IgroupName(san.driver), iqn, TRUE))
         /\ san' = [san EXCEPT !.toRemove = @ \ {iqn}]
    /\ UNCHANGED <<terminated, lastReconciled, lastProbe, lastGetError>>
    /\ UNCHANGED <<ontapi, lun>>
    /\ UNCHANGED waitVars

ReconcileReturn ==
    /\ san.pc = "reconcile"
    /\ san.toAdd = {}
    /\ san.toRemove = {}
    /\ san' = [san EXCEPT !.pc = "reconciled"]
    /\ UNCHANGED <<igroups, terminated, lastReconciled, lastProbe, lastGetError>>
    /\ UNCHANGED <<ontapi, lun>>
    /\ UNCHANGED waitVars

\* Terminate destroys the group of the driver
Terminate ==
    /\ san.pc = "idle"
    /\ \E d \in Drivers \ terminated :
         /\ igroups' = ArrayServe(igroups, IgroupDestroy(IgroupName(d)))
         /\ san' = [IdleSan EXCEPT !.pc = "terminated", !.driver = d]
         /\ terminated' = terminated \cup {d}
    /\ UNCHANGED <<lastReconciled, lastProbe, lastGetError>>
    /\ UNCHANGED <<ontapi, lun>>
    /\ UNCHANGED waitVars

CallProbe ==
    /\ san.pc = "idle"
    /\ \E err \in GetVersionOutcomes :
         lastProbe' = [err |-> err, out |-> Probe(err)]
    /\ san' = [IdleSan EXCEPT !.pc = "probed"]
    /\ UNCHANGED <<igroups, terminated, lastReconciled, lastGetError>>
    /\ UNCHANGED <<ontapi, lun>>
    /\ UNCHANGED waitVars

CallGetError ==
    /\ san.pc = "idle"
    /\ \E z \in GetErrorResults, errorIn \in {NilErr, SubmitErr} :
         lastGetError' = [z |-> z, errorIn |-> errorIn,
                          errorOut |-> GetError(z, errorIn)]
    /\ san' = [IdleSan EXCEPT !.pc = "gotError"]
    /\ UNCHANGED <<igroups, terminated, lastReconciled, lastProbe>>
    /\ UNCHANGED <<ontapi, lun>>
    /\ UNCHANGED waitVars

\* SystemGetOntapiVersion on the client or on a copy of it: client.zr is the
\* runner object that the client and every copy of it point to
CallSystemGetOntapiVersion ==
    /\ san.pc = "idle"
    /\ \E o \in VersionOutcomes :
         LET r == SystemGetOntapiVersion(client, o)
         IN  /\ client' = r.d
             /\ ontapi' = [before |-> client.zr.OntapiVersion,
                           requests |-> r.requests,
                           version |-> r.version,
                           err |-> r.err,
                           known |-> IF r.err = NilErr /\ ontapi.known = ""
                                     THEN r.version ELSE ontapi.known]
    /\ san' = [IdleSan EXCEPT !.pc = "gotVersion"]
    /\ UNCHANGED <<igroups, terminated, lastReconciled, lastProbe, lastGetError,
                   lun>>
    /\ UNCHANGED waitVarsButClient

\* LunMapIfNotMapped for one LUN, whose maps the array holds in lun.maps
CallLunMapIfNotMapped ==
    /\ san.pc = "idle"
    /\ \E initiatorGroupName \in IgroupNames, importNotManaged \in BOOLEAN,
          o \in LunCallOutcomes :
         LET r == LunMapIfNotMapped(lun.maps, initiatorGroupName, importNotManaged, o)
         IN  lun' = [maps |-> r.maps,
                     call |-> [before |-> lun.maps,
                               initiatorGroupName |-> initiatorGroupName,
                               importNotManaged |-> importNotManaged,
                               o |-> o,
                               requests |-> r.requests,
                               lunID |-> r.lunID,
                               err |-> r.err,
                               panic |-> r.panic]]
    /\ san' = [IdleSan EXCEPT !.pc = "lunMapped"]
    /\ UNCHANGED <<igroups, terminated, lastReconciled, lastProbe, lastGetError,
                   ontapi>>
    /\ UNCHANGED waitVars

\* the call is over
OpReturn ==
    /\ san.pc \in {"reconciled", "terminated", "probed", "gotError", "gotVersion",
                 "lunMapped"}
    /\ san' = IdleSan
    /\ lastReconciled' = IF san.pc = "reconciled" THEN san.driver ELSE lastReconciled
    /\ lastProbe' = NoProbe
    /\ lastGetError' = NoGetError
    /\ ontapi' = [NoVersionCall EXCEPT !.known = ontapi.known]
    /\ lun' = [lun EXCEPT !.call = NoLunCall]
    /\ UNCHANGED <<igroups, terminated>>
    /\ UNCHANGED waitVars

OpsNext ==
    \/ ReconcileNodeAccess
    \/ ReconcileAdd
    \/ ReconcileRemove
    \/ ReconcileReturn
    \/ Terminate
    \/ CallProbe
    \/ CallGetError
    \/ CallSystemGetOntapiVersion
    \/ OpReturn

OpsSpec == OpsInit /\ [][OpsNext]_vars

\* the LUN starts with any list of maps the array can hold for it
LunInit ==
    /\ WaitInit
    /\ client = NewClient(ClientConfig)
    /\ igroups = [g \in IgroupNames |-> [exists |-> TRUE, iqns |-> {}]]
    /\ OpsIdle
    /\ lun \in [maps : LunMapLists, call : {NoLunCall}]

LunNext ==
    \/ CallLunMapIfNotMapped
    \/ OpReturn

LunSpec == LunInit /\ [][LunNext]_vars

TypeOK ==
    /\ pc \in {"idle", "poll", "query", "backoff", "done", "panic"}
    /\ nQueries \in 0..MaxQueries
    /\ elapsed \in 0..ClockMax
    /\ maxElapsed # 0 => (nQueries < MaxQueries /\ elapsed < ClockMax)

\* ------------------------------------------------------------------ claims
ObservedSuccess == lastOutcome.kind = "job" /\ lastOutcome.jobState = "success"
ObservedFailure == lastOutcome.kind = "job" /\ lastOutcome.jobState \in FailureStates
ObservedNonTerminal ==
    lastOutcome.kind = "job" /\ lastOutcome.jobState \in NonTerminalStates

\* C1: once a status query has observed job state failure, error, quit or
\* dead, the wait has returned an error: no state of the retry loop (about to
\* query, about to back off) follows such an observation, whatever part of
\* maxWaitTime remains.
C1_FailureEndsWait ==
    ObservedFailure => (pc = "done" /\ waitErr # NilErr)

C1_Witness ==
    /\ pc = "done"
    /\ lastOutcome.kind = "job" /\ lastOutcome.jobState = "dead"
    /\ nQueries = 2
    /\ maxElapsed = MediumWait /\ elapsed < maxElapsed
    /\ waitErr # NilErr

\* C2: a wait that entered polling returns nil only if the last status query
\* it issued observed success, and once success or a failure state has been
\* observed no further status query is issued.
C2_NilOnlyAfterSuccess ==
    [][/\ (pc' = "done" /\ nQueries' > 0 /\ waitErr' = NilErr) => ObservedSuccess'
       /\ (ObservedSuccess \/ ObservedFailure) => nQueries' <= nQueries]_vars

C2_Witness ==
    /\ pc = "done"
    /\ nQueries = 3
    /\ ObservedSuccess
    /\ waitErr = NilErr

\* C3: when the submission status is in_progress and the first status query
\* observes success, WaitForAsyncResponse returns nil after exactly one
\* status query.
C3_FirstQuerySuccess ==
    (status = "in_progress" /\ ObservedSuccess /\ nNonTerminal = 0 /\ nQueryFailed = 0)
        => (pc = "done" /\ waitErr = NilErr /\ nQueries = 1 /\ nSleeps = 0)

C3_Witness ==
    /\ pc = "done"
    /\ status = "in_progress"
    /\ ObservedSuccess
    /\ nQueries = 1
    /\ waitErr = NilErr

\* C4: when the status queries observed k non-terminal job states and then
\* success, the wait issued exactly k+1 status queries, slept a positive
\* backoff delay before each of the k retries, and returned nil.
C4_RetriesUntilSuccess ==
    /\ [](  (ObservedSuccess /\ nQueryFailed = 0 /\ nQueries < MaxQueries)
             => /\ pc = "done"
                /\ waitErr = NilErr
                /\ nQueries = nNonTerminal + 1
                /\ nSleeps = nNonTerminal)
    /\ [][(nQueries > 0 /\ nQueries' > nQueries)
             => (nSleeps = nQueries /\ lastDelay > 0)]_vars

C4_Witness ==
    /\ pc = "done"
    /\ ObservedSuccess
    /\ nQueryFailed = 0
    /\ nNonTerminal = 2
    /\ nQueries = 3
    /\ nSleeps = 2
    /\ waitErr = NilErr
    /\ maxElapsed = MediumWait /\ elapsed <= maxElapsed

\* C5: a status query that itself fails (call error, result status not
\* passed, attribute list absent) or that observes a non-terminal job state is
\* retryable: after it the wait backs off and queries again, and ends only
\* when the backoff budget is exhausted.
C5_QueryFailureIsRetried ==
    (nQueries > 0 /\ (lastOutcome.kind \in {"callError", "notPassed", "noAttributesList"}
                      \/ ObservedNonTerminal))
        => (pc \in {"backoff", "poll", "query"} \/ (pc = "done" /\ cause = "timeout"))

\* C6: when the wait ends while every status query observed a non-terminal
\* job state, it ended because the backoff budget was exhausted and it
\* returns a non-nil error whose text names the job id.
C6_TimeoutNamesJob ==
    (pc = "done" /\ nQueries > 0 /\ nQueryFailed = 0 /\ ObservedNonTerminal)
        => /\ cause = "timeout"
           /\ waitErr # NilErr
           /\ NamesJob(waitErr, jobId)

C6_Witness ==
    /\ pc = "done"
    /\ cause = "timeout"
    /\ jobId = 1
    /\ nQueryFailed = 0
    /\ nNonTerminal = 3
    /\ nQueries = 3
    /\ NamesJob(waitErr, 1)

\* C7: the error returned when the wait times out differs from the error
\* returned for the same job id when the job reached a terminal failure state.
C7_TimeoutDistinctFromFailure ==
    (pc = "done" /\ cause = "timeout")
        => \A s \in FailureStates :
             waitErr # checkForJobCompletionResult(jobId,
                         checkJobFinished(jobId,
                           [kind |-> "job", hasResponse |-> TRUE, jobState |-> s]).err)

\* C8: when the submission failed, WaitForAsyncResponse (if called with the
\* unparsable or failed result) returns a non-nil error without any status
\* query, and FlexGroupCreate returns the submission error without calling
\* WaitForAsyncResponse.
C8_SubmissionFailurePropagates ==
    /\ (waitCalled /\ (status = "failed" \/ cause = "parse"))
          => (pc = "done" /\ waitErr # NilErr /\ nQueries = 0)
    /\ (caller = "FlexGroupCreate" /\ ~waitCalled)
          => (pc = "done" /\ callerErr # NilErr /\ nQueries = 0)

\* C9: when the submission result has status succeeded, WaitForAsyncResponse
\* returns nil and issues no status query.
C9_SucceededReturnsNil ==
    (waitCalled /\ status = "succeeded")
        => (pc = "done" /\ waitErr = NilErr /\ nQueries = 0 /\ callerErr = NilErr)

C9_Witness ==
    /\ pc = "done"
    /\ waitCalled
    /\ status = "succeeded"
    /\ waitErr = NilErr
    /\ nQueries = 0

\* C10: for every maxWaitTime, zero included, a wait that started polling
\* eventually ends: a job that never reaches a terminal state cannot make it
\* retry forever.
C10_WaitEnds ==
    (pc = "poll") ~> (pc \in {"done", "panic"})

RECURSIVE Pow(_, _)
Pow(base, e) == IF e = 0 THEN 1 ELSE base * Pow(base, e - 1)

\* the interval I * M^(n-1) the n-th retry delay is drawn around
NominalInterval(n) == InitialInterval * Pow(Multiplier, n - 1)

WithinJitter(delay, interval) ==
    /\ 100 * delay >= interval * (100 - RandomizationPercent)
    /\ 100 * delay <= interval * (100 + RandomizationPercent)

\* C12 as stated: the n-th retry delay lies in
\* [I*M^(n-1)*(1-r), I*M^(n-1)*(1+r)] until the interval cap is reached, and
\* every delay of a wait is at least as long as the one before it.
C12_DelaysNeverDecrease ==
    [][nSleeps' > nSleeps
         => /\ NominalInterval(nSleeps') < MaxInterval
                => WithinJitter(lastDelay', NominalInterval(nSleeps'))
            /\ nSleeps > 0 => lastDelay' >= lastDelay]_vars

\* C12 amended: the n-th retry delay lies in
\* [I*M^(n-1)*(1-r), I*M^(n-1)*(1+r)] and is at least as long as the one
\* before it until the interval cap is reached; from then on every delay lies
\* in [MaxInterval*(1-r), MaxInterval*(1+r)].
C12_DelaysGrowUntilCap ==
    [][nSleeps' > nSleeps
         => IF NominalInterval(nSleeps') < MaxInterval
            THEN /\ WithinJitter(lastDelay', NominalInterval(nSleeps'))
                 /\ nSleeps > 0 => lastDelay' >= lastDelay
            ELSE WithinJitter(lastDelay', MaxInterval)]_vars

C12_Witness ==
    /\ nSleeps = 3
    /\ lastDelay = 44
    /\ pc = "poll"

\* C13: when the remote job reached a terminal failure state, the error
\* WaitForAsyncResponse returns carries the job id and the observed state.
C13_FailureErrorCarriesState ==
    (pc = "done" /\ ObservedFailure)
        => (NamesJob(waitErr, jobId) /\ NamesText(waitErr, lastOutcome.jobState))

\* C14: at most one status query is outstanding at any time, and a query is
\* issued only when the previous one has returned and the backoff delay that
\* followed it has passed.
C14_OneQueryAtATime ==
    /\ [](outstanding <= 1)
    /\ [][outstanding' > outstanding
            => (outstanding = 0 /\ nSleeps = nQueries)]_vars

C14_Witness ==
    /\ pc = "query"
    /\ outstanding = 1
    /\ nQueries = 2
    /\ nSleeps = 2

\* C15: WaitForAsyncResponse leaves the client as it found it (configuration,
\* runner with its SVM, cached ONTAPI version), while every status query runs
\* on a runner whose SVM is cleared.
C15_ClientUnchanged ==
    /\ [](pc = "query" => (queryRunner = [client.zr EXCEPT !.SVM = ""]
                           /\ client.zr.SVM = client.config.SVM))
    /\ [][client' = client]_vars

C15_Witness ==
    /\ pc = "done"
    /\ cause = "jobSuccess"
    /\ nQueries = 2
    /\ queryRunner.SVM = ""
    /\ client = CachedClient
    /\ client.zr.SVM = "svm1"

\* the group named in the configuration of the driver the call is made on
OwnIgroup == igroups[IgroupName(san.driver)]

\* C16: after ReconcileNodeAccess(nodes) the initiators of the driver's
\* igroup are exactly the IQNs of the given nodes, and a group that already
\* matches is not changed.
C16_ReconcileGivesNodeIQNs ==
    /\ [](san.pc = "reconciled" => OwnIgroup.iqns = san.nodeIQNs)
    /\ [][(san.pc = "reconcile" /\ OwnIgroup.iqns = san.nodeIQNs)
             => igroups' = igroups]_vars

C16_Witness ==
    /\ san.pc = "reconciled"
    /\ san.driver = "driver1"
    /\ san.nodeIQNs = {"IQN1", "IQN2"}
    /\ igroups["igroup1"].iqns = {"IQN1", "IQN2"}
    /\ lastReconciled = "none"
    /\ igroups["igroup2"].iqns = {"IQN3"}

\* C17: ReconcileNodeAccess on one driver changes no group other than the
\* one named in that driver's configuration, whichever driver is reconciled
\* first.
C17_ReconcileTouchesOwnGroupOnly ==
    [][san'.pc \in {"reconcile", "reconciled"}
          => \A g \in IgroupNames \ {IgroupName(san'.driver)} :
                igroups'[g] = igroups[g]]_vars

C17_Witness ==
    /\ san.pc = "reconciled"
    /\ san.driver = "driver1"
    /\ lastReconciled = "driver2"
    /\ igroups["igroup1"].iqns = {"IQN1"}
    /\ igroups["igroup2"].iqns = {"IQN2", "IQN3"}

C19_ProbeFailsOnlyOnBootstrapError ==
    san.pc = "probed"
        => /\ lastProbe.out.response = "ProbeResponse{}"
           /\ (lastProbe.out.code = "FailedPrecondition"
                  <=> lastProbe.err.kind = "bootstrap")
           /\ (lastProbe.err.kind # "bootstrap" => lastProbe.out.code = "OK")

C19_Witness ==
    /\ san.pc = "probed"
    /\ lastProbe.err.kind = "notReady"
    /\ lastProbe.out.code = "OK"

\* the result is one whose status GetError can read, and the status is passed
ResultPassed(z) ==
    z.shape \in {"async", "noAsyncFields", "result"} /\ z.resultStatus = "passed"

\* C20: GetError returns errorIn unchanged whenever it is non-nil; otherwise
\* it returns nil exactly when the result's status is passed and a non-nil
\* ZapiError in every other case.
C20_GetErrorContract ==
    san.pc = "gotError"
        => IF lastGetError.errorIn # NilErr
           THEN lastGetError.errorOut = lastGetError.errorIn
           ELSE /\ lastGetError.errorOut = NilErr <=> ResultPassed(lastGetError.z)
                /\ lastGetError.errorOut # NilErr
                      => lastGetError.errorOut.fmt = EmptyZapiError.fmt

\* C24: WaitForAsyncResponse returns nil without polling only when the
\* submission status is succeeded; an empty or otherwise unknown status is
\* not reported as success.
C24_NilWithoutPollingOnlyIfSucceeded ==
    (pc = "done" /\ waitCalled /\ waitErr = NilErr /\ nQueries = 0)
        => status = "succeeded"

\* C25: no outcome of a status query makes the wait abort abnormally: after
\* every query checkJobFinished has returned an error value or nil, and the
\* wait either goes on or has returned to its caller.
C25_NoAbnormalAbort ==
    (waitCalled /\ nQueries > 0) => pc # "panic"

\* C21: once a call of SystemGetOntapiVersion has succeeded, every later call
\* returns the same version without a remote request; a failed call caches
\* nothing, so the call after it issues the remote request again.
C21_OntapiVersionCached ==
    /\ [](san.pc = "gotVersion"
            => /\ ontapi.before # "" => (/\ ontapi.requests = 0
                                         /\ ontapi.err = NilErr
                                         /\ ontapi.version = ontapi.known)
               /\ ontapi.before = "" => ontapi.requests = 1
               /\ ontapi.err # NilErr => (client.zr.OntapiVersion = ""
                                          /\ ontapi.version = "")
               /\ ontapi.err = NilErr => (/\ ontapi.version # ""
                                          /\ ontapi.version = ontapi.known
                                          /\ client.zr.OntapiVersion = ontapi.known))
    /\ [](ontapi.known = client.zr.OntapiVersion)

C21_Witness ==
    /\ san.pc = "gotVersion"
    /\ ontapi.before = "1.170"
    /\ ontapi.requests = 0
    /\ ontapi.version = "1.170"
    /\ client.zr.SVM = "svm1"

\* C22: FlexGroupDestroy of a FlexGroup the array reports as no longer
\* existing (code EVOLUMEDOESNOTEXIST) returns no error and issues no status
\* query, every time it is called.
C22_DestroyOfMissingFlexGroupSucceeds ==
    (caller = "FlexGroupDestroy" /\ errno = "EVOLUMEDOESNOTEXIST")
        => /\ pc = "done"
           /\ callerErr = NilErr
           /\ ~waitCalled
           /\ nQueries = 0
           /\ outstanding = 0

C22_Witness ==
    /\ pc = "done"
    /\ caller = "FlexGroupDestroy"
    /\ errno = "EVOLUMEDOESNOTEXIST"
    /\ cause = "alreadyDeleted"
    /\ callerErr = NilErr

\* the maps the LUN had when the call started that count as "already mapped":
\* the one to the requested group or, with importNotManaged, any
MappedBefore ==
    {i \in 1..Len(lun.call.before) :
        lun.call.importNotManaged
        \/ lun.call.before[i].igroup = lun.call.initiatorGroupName}

AlreadyMapped == MappedBefore # {}

\* the LUN id of the first map that counts
ExistingLunId ==
    lun.call.before[CHOOSE i \in MappedBefore : \A j \in MappedBefore : i <= j].lunId

MapRequestIssued ==
    \E i \in 1..Len(lun.call.requests) : lun.call.requests[i].api = "lun-map"

\* the list was read and every unmap request the loop made was served
ReadAndUnmapsServed ==
    /\ lun.call.o.list = "ok"
    /\ lun.call.o.unmap = "ok"
          \/ \A i \in 1..Len(lun.call.requests) :
                lun.call.requests[i].api # "lun-unmap"

====
